---- MODULE Spec2Model ----
(***************************************************************************)
(* The Monte Carlo data generator of src/monte.py: one Streamlit script.   *)
(* A script run evaluates the sidebar widgets (lines 22-85), and, when the *)
(* generate button was clicked, dispatches on the distribution, draws      *)
(* num_points values with numpy and renders three views (lines 89-150).    *)
(*                                                                         *)
(* Real numbers are counted in hundredths (Unit = 100 stands for 1.0), the *)
(* finest step any widget declares.  The array numpy returns is kept as    *)
(* the bag (multiset) of its values: no modelled operation reads the draw  *)
(* order.                                                                  *)
(***************************************************************************)
EXTENDS Integers, Sequences, FiniteSets, Bags, TLC

VARIABLES
    distribution,     \* line 26: the selected distribution
    num_points,       \* line 40: the number of values to draw
    params,           \* lines 53-82: the parameter dict of the selected branch
    generate_button,  \* line 85: TRUE in the run the click triggers
    pc,               \* the position of the script run
    data,             \* lines 93-107: the drawn array
    df,               \* line 110: the DataFrame
    out,              \* the elements this run has put on the page, in order
    previous          \* history: the distribution of the preceding run

vars == <<distribution, num_points, params, generate_button, pc, data, df, out, previous>>

\* What the sidebar sets and the rest of the run only reads.
inputs == <<distribution, num_points, params, generate_button, previous>>

\* ------------------------------------------------------------------ bounds
\* num_points is drawn from min_value .. min_value + ExtraPoints.
ExtraPoints == 1

\* ------------------------------------------------------- program constants
Unit == 100
min_value == 10
max_value == 100000
\* exp(x) is 0.0 in IEEE double precision for every x <= -745.14
ExpUnderflow == 0 - 74514

Distributions == {"Normal", "Uniform", "Exponential", "Lognormal", "Binomial", "Poisson"}

\* ------------------------------------------------------------ the widgets
\* One st.number_input / st.slider call: the key it is stored under, its
\* value= default, its min_value / max_value when declared, and whether it
\* is an integer widget (value and step are ints).
Widget(name, value, hasMin, min, hasMax, max, integer) ==
    [name |-> name, value |-> value, hasMin |-> hasMin, min |-> min,
     hasMax |-> hasMax, max |-> max, integer |-> integer]

\* Lines 56-57.
NormalWidgets ==
    << Widget("loc", 0, FALSE, 0, FALSE, 0, FALSE),
       Widget("scale", 100, TRUE, 1, FALSE, 0, FALSE) >>

\* Lines 61-62.
UniformWidgets ==
    << Widget("low", 0, FALSE, 0, FALSE, 0, FALSE),
       Widget("high", 100, FALSE, 0, FALSE, 0, FALSE) >>

\* Line 68.
ExponentialWidgets ==
    << Widget("scale", 100, TRUE, 1, FALSE, 0, FALSE) >>

\* Lines 72-73.
LognormalWidgets ==
    << Widget("mean", 0, FALSE, 0, FALSE, 0, FALSE),
       Widget("sigma", 100, TRUE, 1, FALSE, 0, FALSE) >>

\* Lines 77-78.
BinomialWidgets ==
    << Widget("n", 1000, TRUE, 100, FALSE, 0, TRUE),
       Widget("p", 50, TRUE, 0, TRUE, 100, FALSE) >>

\* Line 82 as a copy of line 68 would have it: the Exponential widget.
PoissonWidgetsCopied ==
    << Widget("scale", 100, TRUE, 1, FALSE, 0, FALSE) >>

\* Line 82.
PoissonWidgets ==
    << Widget("lam", 300, TRUE, 10, FALSE, 0, FALSE) >>

\* Lines 54-82: the widgets of the selected branch.
WidgetSpec(kind) ==
    CASE kind = "Normal" -> NormalWidgets
      [] kind = "Uniform" -> UniformWidgets
      [] kind = "Exponential" -> ExponentialWidgets
      [] kind = "Lognormal" -> LognormalWidgets
      [] kind = "Binomial" -> BinomialWidgets
      [] kind = "Poisson" -> PoissonWidgets

WidgetNames(kind) == {WidgetSpec(kind)[i].name : i \in 1..Len(WidgetSpec(kind))}

\* The values a user is modelled to enter into a widget, in and out of the
\* widget's declared range.
Typed(kind, name) ==
    CASE kind = "Normal" /\ name = "loc" -> {0, 250}
      [] kind = "Normal" /\ name = "scale" -> {0 - 100, 0, 1, 100}
      [] kind = "Uniform" /\ name = "low" -> {0, 100, 500}
      [] kind = "Uniform" /\ name = "high" -> {100}
      [] kind = "Exponential" /\ name = "scale" -> {0 - 100, 0, 1, 100}
      [] kind = "Lognormal" /\ name = "mean" -> {0, 0 - 100000}
      [] kind = "Lognormal" /\ name = "sigma" -> {0 - 100, 0, 100}
      [] kind = "Binomial" /\ name = "n" -> {0 - 100, 0, 100, 1000}
      [] kind = "Binomial" /\ name = "p" -> {0 - 50, 0, 50, 100, 150}
      [] kind = "Poisson" /\ name = "lam" -> {0 - 100, 0, 10, 300}
      [] OTHER -> {}

AllTyped == UNION {UNION {Typed(k, nm) : nm \in WidgetNames(k)} : k \in Distributions}

\* A widget returns only values inside its declared range; an integer
\* widget returns whole numbers.
Accepts(w, v) ==
    /\ w.hasMin => v >= w.min
    /\ w.hasMax => v <= w.max
    /\ w.integer => v % Unit = 0

\* Line 53 left out: the dict of the preceding run is filled further.
BuildParamsKept(kind, old, entered) == entered @@ old

\* Lines 53-82: params starts empty and gets the keys of the selected branch.
BuildParams(kind, old, entered) == entered

WidgetParams(kind) ==
    {p \in [WidgetNames(kind) -> AllTyped] :
        \A i \in 1..Len(WidgetSpec(kind)) :
            LET w == WidgetSpec(kind)[i]
            IN  p[w.name] \in Typed(kind, w.name) /\ Accepts(w, p[w.name])}

\* Every value a caller can put into a request, bypassing the widgets.
RequestParams(kind) ==
    {p \in [WidgetNames(kind) -> AllTyped] :
        \A nm \in WidgetNames(kind) : p[nm] \in Typed(kind, nm)}

NumPointsChoices == {n \in min_value..max_value : n <= min_value + ExtraPoints}

\* ------------------------------------------------------------ page output
Msg(kind, n) == [kind |-> kind, n |-> n]

Shown(kind) == \E i \in 1..Len(out) : out[i].kind = kind

NoParams == [x \in {} |-> 0]

Init ==
    /\ distribution = "Normal"
    /\ num_points = min_value
    /\ params = NoParams
    /\ generate_button = FALSE
    /\ pc = "start"
    /\ data = EmptyBag
    /\ df = EmptyBag
    /\ out = << >>
    /\ previous = "none"

\* Lines 22-85: a script run starts (on page load and after every
\* interaction) with a fresh namespace and an empty page, and evaluates the
\* sidebar.  Lines 63-64: the inline warning.
SidebarWith(kind, n, p, button) ==
    /\ pc \in {"start", "end"}
    /\ distribution' = kind
    /\ num_points' = n
    /\ params' = BuildParams(kind, params, p)
    /\ generate_button' = button
    /\ out' = IF kind = "Uniform" /\ p["low"] >= p["high"]
              THEN << Msg("warning", 0) >> ELSE << >>
    /\ data' = EmptyBag
    /\ df' = EmptyBag
    /\ previous' = IF pc = "start" THEN "none" ELSE distribution
    /\ pc' = "main"

Sidebar ==
    \E kind \in Distributions, n \in NumPointsChoices, button \in BOOLEAN :
        \E p \in WidgetParams(kind) : SidebarWith(kind, n, p, button)

\* The generation block of lines 89-147 driven by a request built without
\* the widgets' range checks.
Request ==
    \E kind \in Distributions, n \in NumPointsChoices :
        \E p \in RequestParams(kind) : SidebarWith(kind, n, p, TRUE)

\* Lines 89, 149-150: the button was not clicked.
Idle ==
    /\ pc = "main"
    /\ ~generate_button
    /\ out' = Append(out, Msg("info", 0))
    /\ pc' = "end"
    /\ UNCHANGED <<inputs, data, df>>

\* Lines 89-91: the button was clicked, the try block is entered.
Generate ==
    /\ pc = "main"
    /\ generate_button
    /\ pc' = "validate"
    /\ UNCHANGED <<inputs, data, df, out>>

\* Line 95 with <= for <.
UniformOrderedLax(p) == p["low"] <= p["high"]

\* Line 95: the only check the generation block makes.
UniformOrdered(p) == p["low"] < p["high"]

\* Lines 94-99 without the check.
ValidatedNothing(kind, p) == TRUE

\* Lines 92-107: what a branch checks before its numpy call.
Validated(kind, p) == kind = "Uniform" => UniformOrdered(p)

\* Line 146: `except Exception` prints the generic failure message.
Except(o) == Append(o, Msg("failed", 0))

\* Line 99 if the handler of line 146 caught what st.stop() raises.
StopCaught(o) == Except(o)

\* Line 99: st.stop() raises a script-control exception that derives from
\* BaseException, so the handler of line 146 does not see it.
Stop(o) == o

\* Lines 92-107: the dispatch on the distribution; lines 97-99 reject.
Validate ==
    /\ pc = "validate"
    /\ IF Validated(distribution, params)
       THEN /\ pc' = "draw"
            /\ out' = out
       ELSE /\ pc' = "end"
            /\ out' = Stop(Append(out, Msg("rejected", 0)))
    /\ UNCHANGED <<inputs, data, df>>

\* ------------------------------------------------------- the numpy draws
\* exp in double precision at the sampled points, in hundredths: 0.0 at and
\* below the underflow threshold, and a positive value above it (a positive
\* result is never rounded to 0 by the grid).
FloatExp(x) ==
    IF x <= ExpUnderflow THEN 0
    ELSE IF x < 0 - Unit THEN 1
    ELSE IF x < 0 THEN 37
    ELSE IF x = 0 THEN Unit
    ELSE 272

\* np.random.normal(loc, scale): loc + scale * z, sampled at z = -1, 1.
normal(loc, scale) == {loc - scale, loc + scale}

\* np.random.uniform(low, high): low + (high - low) * u with u in [0, 1),
\* sampled at u = 0, 0.5, 0.99.
uniform(low, high) == {low + ((high - low) * u) \div Unit : u \in {0, 50, 99}}

\* np.random.exponential(scale): scale * e with e >= 0, sampled at 0, 1, 3.
exponential(scale) == {0, scale, 3 * scale}

\* np.random.lognormal(mean, sigma): exp of a normal(mean, sigma) draw.
lognormal(mean, sigma) == {FloatExp(x) : x \in normal(mean, sigma)}

\* np.random.binomial(n, p): a whole number of successes in 0..n; 0 when
\* p = 0 and n when p = 1.
binomial(n, p) ==
    IF p = 0 THEN {0}
    ELSE IF p = Unit THEN {n}
    ELSE {0, ((n \div Unit) \div 2) * Unit, n}

\* np.random.poisson(lam): a whole number of events >= 0; 0 when lam = 0.
poisson(lam) ==
    IF lam = 0 THEN {0}
    ELSE {0, (lam \div Unit) * Unit, (lam \div Unit + 1) * Unit}

\* The argument checks numpy makes before it draws (ValueError): a negative
\* scale / sigma / lam / n, or p outside [0, 1].
ArgError(kind, p) ==
    CASE kind = "Normal" -> p["scale"] < 0
      [] kind = "Uniform" -> FALSE
      [] kind = "Exponential" -> p["scale"] < 0
      [] kind = "Lognormal" -> p["sigma"] < 0
      [] kind = "Binomial" -> p["n"] < 0 \/ p["p"] < 0 \/ p["p"] > Unit
      [] kind = "Poisson" -> p["lam"] < 0

\* Line 93.
NormalCall(p) == normal(p["loc"], p["scale"])

\* Line 96.
UniformCall(p) == uniform(p["low"], p["high"])

\* Line 101.
ExponentialCall(p) == exponential(p["scale"])

\* Line 103.
LognormalCall(p) == lognormal(p["mean"], p["sigma"])

\* Line 105 as a copy of line 107 would have it: poisson with the trials.
BinomialCallAsPoisson(p) == poisson(p["n"])

\* Line 105.
BinomialCall(p) == binomial(p["n"], p["p"])

\* Line 107.
PoissonCall(p) == poisson(p["lam"])

\* Lines 92-107: which numpy function each branch calls, with which keys.
Sample(kind, p) ==
    CASE kind = "Normal" -> NormalCall(p)
      [] kind = "Uniform" -> UniformCall(p)
      [] kind = "Exponential" -> ExponentialCall(p)
      [] kind = "Lognormal" -> LognormalCall(p)
      [] kind = "Binomial" -> BinomialCall(p)
      [] kind = "Poisson" -> PoissonCall(p)

\* The keys each branch of lines 92-107 reads from params.
ReadNames(kind) ==
    CASE kind = "Normal" -> {"loc", "scale"}
      [] kind = "Uniform" -> {"low", "high"}
      [] kind = "Exponential" -> {"scale"}
      [] kind = "Lognormal" -> {"mean", "sigma"}
      [] kind = "Binomial" -> {"n", "p"}
      [] kind = "Poisson" -> {"lam"}

\* size one short of num_points.
SizeShort(n) == n - 1

\* size=num_points in every call of lines 93-107.
Size(n) == n

\* Every array of `size` values over the sampled points, as a bag.
BagsOver(D, size) ==
    {b \in UNION {[S -> 1..size] : S \in (SUBSET D) \ {{}}} :
        BagCardinality(b) = size}

\* Lines 93-107: the numpy call returns.
Draw ==
    /\ pc = "draw"
    /\ ReadNames(distribution) \subseteq DOMAIN params
    /\ ~ArgError(distribution, params)
    /\ data' \in BagsOver(Sample(distribution, params), Size(num_points))
    /\ pc' = "frame"
    /\ UNCHANGED <<inputs, df, out>>

\* Lines 93-107, 146-147: the numpy call raises (a rejected argument, a key
\* missing from params, an overflowing range, a rate too large, no memory).
DrawRaises ==
    /\ pc = "draw"
    /\ out' = Except(out)
    /\ pc' = "end"
    /\ UNCHANGED <<inputs, data, df>>

\* Lines 110-112: the DataFrame and the success message.
Frame ==
    /\ pc = "frame"
    /\ df' = data
    /\ out' = Append(out, Msg("success", num_points))
    /\ pc' = "tab1"
    /\ UNCHANGED <<inputs, data>>

\* Lines 115-134: the tabs and the histogram.
Tab1 ==
    /\ pc = "tab1"
    /\ out' = Append(out, Msg("histogram", BagCardinality(df)))
    /\ pc' = "tab2"
    /\ UNCHANGED <<inputs, data, df>>

\* Lines 136-139: df.describe(), whose count row is the number of values.
Tab2 ==
    /\ pc = "tab2"
    /\ out' = Append(out, Msg("stats", BagCardinality(df)))
    /\ pc' = "tab3"
    /\ UNCHANGED <<inputs, data, df>>

\* Lines 141-144: the raw data table.
Tab3 ==
    /\ pc = "tab3"
    /\ out' = Append(out, Msg("raw", BagCardinality(df)))
    /\ pc' = "end"
    /\ UNCHANGED <<inputs, data, df>>

\* Lines 110-147: a call of the rendering part raises; what the page already
\* shows stays, and the handler adds the failure message.
RenderRaises ==
    /\ pc \in {"frame", "tab1", "tab2", "tab3"}
    /\ out' = Except(out)
    /\ pc' = "end"
    /\ UNCHANGED <<inputs, data, df>>

\* Lines 91-147: the steps of the try block.
Generation ==
    \/ Generate
    \/ Validate
    \/ Draw
    \/ DrawRaises
    \/ Frame
    \/ Tab1
    \/ Tab2
    \/ Tab3
    \/ RenderRaises

Next == Sidebar \/ Idle \/ Generation

Spec == Init /\ [][Next]_vars

NextCore == Request \/ Generation

SpecCore == Init /\ [][NextCore]_vars

\* ------------------------------------------------------- how a run ended
Views == {"histogram", "stats", "raw"}

Count(kind) == Cardinality({i \in 1..Len(out) : out[i].kind = kind})

\* The count a shown element of that kind carries.
MsgN(kind) == out[CHOOSE i \in 1..Len(out) : out[i].kind = kind].n

\* Lines 149-150: only the info prompt.
IsIdle == pc = "end" /\ Shown("info")

\* Lines 97-99: the 'Generation failed' error.
IsRejected == pc = "end" /\ Shown("rejected")

\* Lines 146-147: the 'An error occurred during data generation' message.
IsFailed == pc = "end" /\ Shown("failed")

\* Lines 112-144: the success message followed by the three views.
IsDone ==
    /\ pc = "end"
    /\ Shown("success")
    /\ \A v \in Views : Shown(v)
    /\ ~Shown("failed")

\* A request is in params once the sidebar has run.
Requested == pc \notin {"start", "main"} /\ generate_button

\* The validation of this request is over.
Decided == Requested /\ pc # "validate"

\* The numpy call of this request has returned or raised.
PastDraw == Decided /\ pc # "draw"

Summarizing == pc \in {"frame", "tab1", "tab2", "tab3"}

\* Every declared constraint of the schema: the widget ranges and the
\* joint Uniform ordering.
Constraints(kind, p) ==
    /\ \A i \in 1..Len(WidgetSpec(kind)) :
          Accepts(WidgetSpec(kind)[i], p[WidgetSpec(kind)[i].name])
    /\ kind = "Uniform" => p["low"] < p["high"]

TypeOK ==
    /\ distribution \in Distributions
    /\ num_points \in min_value..max_value
    /\ generate_button \in BOOLEAN
    /\ pc \in {"start", "main", "validate", "draw", "frame", "tab1", "tab2", "tab3", "end"}
    /\ previous \in Distributions \cup {"none"}
    /\ IsABag(data) /\ IsABag(df)

\* -------------------------------------------------------------------- C1
\* C1: a Uniform request with low >= high (low = high included) ends with
\* the bound-ordering error and nothing else: no array is drawn, no
\* DataFrame built, no success message and no view shown.
C1_UniformRejected ==
    (Decided /\ distribution = "Uniform" /\ params["low"] >= params["high"]) =>
        /\ pc = "end"
        /\ Shown("rejected")
        /\ data = EmptyBag
        /\ df = EmptyBag
        /\ ~Shown("success")
        /\ \A v \in Views : ~Shown(v)

C1_Witness ==
    /\ IsRejected
    /\ distribution = "Uniform"
    /\ params["low"] = params["high"]

\* -------------------------------------------------------------------- C2
\* C2 as stated: every finished generate run went Validating -> Drawing ->
\* Summarizing -> Done or Validating -> Rejected, so it ended Done or
\* Rejected.
C2_TwoPathsOnly == (pc = "end" /\ generate_button) => (IsDone \/ IsRejected)

\* C2 as amended: a generate run moves Validating -> Drawing -> Summarizing
\* -> Done, or Validating -> Rejected, or leaves Drawing or Summarizing for
\* Failed when a call raises.  Drawing starts only from Validating with
\* every constraint of the kind satisfied and nothing drawn yet, Summarizing
\* only from Drawing, and a finished run (Rejected included) only starts a
\* new run.
C2_Paths ==
    [][ /\ pc' = "validate" => pc = "main" /\ generate_button
        /\ pc' = "draw" =>
              /\ pc = "validate"
              /\ Constraints(distribution, params)
              /\ data = EmptyBag
        /\ pc \in {"start", "main", "validate", "draw"} => data = EmptyBag
        /\ pc' = "frame" => pc = "draw"
        /\ pc' = "tab1" => pc = "frame"
        /\ pc' = "tab2" => pc = "tab1"
        /\ pc' = "tab3" => pc = "tab2"
        /\ (pc' = "end" /\ generate_button) =>
              \/ pc = "validate" /\ IsRejected' /\ ~IsFailed' /\ ~IsDone'
              \/ pc = "tab3" /\ IsDone' /\ ~IsRejected'
              \/ (pc = "draw" \/ Summarizing) /\ IsFailed' /\ ~IsRejected'
        /\ pc = "end" => pc' = "main"
      ]_vars

C2_Witness ==
    /\ IsFailed
    /\ distribution = "Exponential"
    /\ data # EmptyBag

\* -------------------------------------------------------------------- C3
\* C3: a completed generation of a request with sampleCount = n holds
\* exactly n values, and n is the count of the success message and of the
\* summary statistics.
C3_ExactCount ==
    /\ IsDone =>
          /\ num_points \in min_value..max_value
          /\ BagCardinality(data) = num_points
          /\ BagCardinality(df) = num_points
          /\ MsgN("success") = num_points
          /\ MsgN("stats") = num_points
    /\ (PastDraw /\ data # EmptyBag) => BagCardinality(data) = num_points

C3_Witness ==
    /\ IsDone
    /\ distribution = "Poisson"
    /\ num_points = min_value + 1
    /\ MsgN("stats") = min_value + 1

PositiveOnly == {"scale", "sigma", "lam", "n"}

\* A positive-only parameter lies below the minimum its widget declares.
BelowMinimum(kind, p) ==
    \E i \in 1..Len(WidgetSpec(kind)) :
        LET w == WidgetSpec(kind)[i]
        IN  w.name \in PositiveOnly /\ w.hasMin /\ p[w.name] < w.min

C6_NoPartialOutput ==
    Shown("failed") =>
        /\ Count("failed") = 1
        /\ ~Shown("success")
        /\ \A v \in Views : ~Shown(v)

\* -------------------------------------------------------------------- C7
Whole(v) == v % Unit = 0

\* The numeric domain of a kind; Lognormal with 0 excluded or included, and
\* Uniform with high excluded or included.
InDomain(kind, p, v, zeroToo, highToo) ==
    CASE kind = "Normal" -> TRUE
      [] kind = "Uniform" ->
            /\ p["low"] <= v
            /\ IF highToo THEN v <= p["high"] ELSE v < p["high"]
      [] kind = "Exponential" -> v >= 0
      [] kind = "Lognormal" -> IF zeroToo THEN v >= 0 ELSE v > 0
      [] kind = "Binomial" -> Whole(v) /\ 0 <= v /\ v <= p["n"]
      [] kind = "Poisson" -> Whole(v) /\ 0 <= v

\* C7 as stated: every drawn element is in [low, high) for Uniform, a whole
\* number in [0, trials] for Binomial, a whole number >= 0 for Poisson,
\* >= 0 for Exponential and > 0 for Lognormal.
C7_Domains ==
    PastDraw =>
        \A v \in BagToSet(data) : InDomain(distribution, params, v, FALSE, FALSE)

\* C7 as amended: as stated, but a Lognormal element is >= 0 (it is 0.0
\* when exp underflows) and a Uniform element is in [low, high].
C7_FloatDomains ==
    PastDraw =>
        \A v \in BagToSet(data) : InDomain(distribution, params, v, TRUE, TRUE)

C7_Witness ==
    /\ IsDone
    /\ distribution = "Lognormal"
    /\ params["mean"] + params["sigma"] <= ExpUnderflow
    /\ BagToSet(data) = {0}
    /\ BagCardinality(data) = num_points

\* -------------------------------------------------------------------- C8
\* C8: a run starts from nothing of the runs before it: params holds the
\* keys and values entered for this request only, no array, DataFrame or
\* result element is there before this run's own draw; whether the run is
\* rejected, and the length of what it draws, follow from this request's
\* kind, parameters and count alone.
C8_Stateless ==
    [][ /\ pc' = "main" =>
              /\ DOMAIN params' = WidgetNames(distribution')
              /\ \A nm \in DOMAIN params' : params'[nm] \in Typed(distribution', nm)
              /\ data' = EmptyBag
              /\ df' = EmptyBag
              /\ \A i \in 1..Len(out') : out'[i].kind = "warning"
        /\ Decided' =>
              (Shown("rejected")' <=>
                  (distribution' = "Uniform" /\ params'["low"] >= params'["high"]))
        /\ data' # EmptyBag => BagCardinality(data') = num_points'
      ]_vars

C8_Witness ==
    /\ IsDone
    /\ previous = "Uniform"
    /\ distribution = "Binomial"
    /\ DOMAIN params = {"n", "p"}

\* -------------------------------------------------------------------- C9
\* The table of section 4.1: per kind, per parameter in order, the default,
\* whether a minimum is declared and which, whether a maximum is declared
\* and which, and whether the parameter is an integer.
Row(value, hasMin, min, hasMax, max, integer) ==
    [value |-> value, hasMin |-> hasMin, min |-> min,
     hasMax |-> hasMax, max |-> max, integer |-> integer]

SchemaTable(kind) ==
    CASE kind = "Normal" ->
            << Row(0, FALSE, 0, FALSE, 0, FALSE), Row(Unit, TRUE, 1, FALSE, 0, FALSE) >>
      [] kind = "Uniform" ->
            << Row(0, FALSE, 0, FALSE, 0, FALSE), Row(Unit, FALSE, 0, FALSE, 0, FALSE) >>
      [] kind = "Exponential" ->
            << Row(Unit, TRUE, 1, FALSE, 0, FALSE) >>
      [] kind = "Lognormal" ->
            << Row(0, FALSE, 0, FALSE, 0, FALSE), Row(Unit, TRUE, 1, FALSE, 0, FALSE) >>
      [] kind = "Binomial" ->
            << Row(10 * Unit, TRUE, Unit, FALSE, 0, TRUE),
               Row(50, TRUE, 0, TRUE, Unit, FALSE) >>
      [] kind = "Poisson" ->
            << Row(3 * Unit, TRUE, 10, FALSE, 0, FALSE) >>

RowOf(w) == Row(w.value, w.hasMin, w.min, w.hasMax, w.max, w.integer)

\* C9: for each of the six kinds the widgets of its branch are the rows of
\* the schema table (count, defaults, minimum, maximum, integer), their
\* keys are distinct and are exactly the keys the generation branch of the
\* same kind reads, and the params of a run hold exactly those keys.
C9_Schema ==
    /\ \A kind \in Distributions :
          /\ Len(WidgetSpec(kind)) = Len(SchemaTable(kind))
          /\ \A i \in 1..Len(WidgetSpec(kind)) :
                RowOf(WidgetSpec(kind)[i]) = SchemaTable(kind)[i]
          /\ Cardinality(WidgetNames(kind)) = Len(WidgetSpec(kind))
          /\ WidgetNames(kind) = ReadNames(kind)
    /\ pc # "start" => DOMAIN params = ReadNames(distribution)

C9_Witness ==
    /\ pc = "draw"
    /\ distribution = "Lognormal"
    /\ DOMAIN params = {"mean", "sigma"}
    /\ previous = "Poisson"

\* ------------------------------------------------------------------- C10
\* C10: a finished run is exactly one of Idle, Rejected, Done, Failed.  It
\* is Idle exactly when the button was not clicked, and then nothing was
\* drawn; Rejected only for Uniform with low >= high, without the failure
\* message and with nothing drawn; Done ends with the success message
\* followed by the three views; and the success message is on the page only
\* with num_points values drawn.
C10_Outcomes ==
    /\ pc = "end" =>
          /\ Cardinality({o \in {"idle", "rejected", "done", "failed"} :
                            \/ o = "idle" /\ IsIdle
                            \/ o = "rejected" /\ IsRejected
                            \/ o = "done" /\ IsDone
                            \/ o = "failed" /\ IsFailed}) = 1
          /\ IsIdle <=> ~generate_button
          /\ IsIdle => data = EmptyBag /\ ~Shown("success") /\ ~Shown("failed")
          /\ IsRejected =>
                /\ distribution = "Uniform"
                /\ params["low"] >= params["high"]
                /\ ~Shown("failed")
                /\ ~Shown("success")
                /\ data = EmptyBag
          /\ IsDone =>
                /\ Len(out) >= 4
                /\ SubSeq(out, Len(out) - 3, Len(out)) =
                      << Msg("success", num_points), Msg("histogram", num_points),
                         Msg("stats", num_points), Msg("raw", num_points) >>
    /\ Shown("success") => BagCardinality(data) = num_points

C10_Witness ==
    /\ IsRejected
    /\ params["low"] > params["high"]
    /\ out = << Msg("warning", 0), Msg("rejected", 0) >>

====
